---- MODULE Spec2Model ----
(***************************************************************************)
(* Model of the terminal audio player in src/src/main.rs: the App          *)
(* controller (play, pause, next_song, previous_song, select_first_song),  *)
(* the rodio backend it drives (Sink objects, counted in `live`), and the  *)
(* run_app interaction loop.                                               *)
(*                                                                         *)
(* Option<T> is modelled as a sequence: None is <<>>, Some(x) is <<x>>.    *)
(* Vec indices are the source's 0-based indices; songs[i + 1] is           *)
(* songs.get(i).                                                           *)
(***************************************************************************)
EXTENDS Integers, Sequences, FiniteSets, TLC

\* Largest catalog the model explores.
MaxSongs == 3

VARIABLES
    songs,          \* App.songs: the catalog, fixed after startup
    current_song,   \* App.current_song: Option<usize>
    playing,        \* App.playing
    sink,           \* App.sink: Option<Sink>
    stream_handle,  \* App.stream_handle: Option<Arc<OutputStreamHandle>>
    live,           \* backend: number of Sink objects in existence
    opened,         \* backend: number of OutputStream::try_default() calls
    lastOp,         \* the App method called last
    lastRes,        \* its result: "Ok" or the error it returned
    calls,          \* backend calls made by the last method, in order
    peak,           \* most Sink objects alive at one instant of the last method
    prevOp,         \* the method called before the last one
    sel1,           \* current_song before the last method
    sel2,           \* current_song before the last two methods
    nextRun,        \* length of the run of next_song calls ending now
    runStart,       \* current_song when that run began
    st1,            \* playing, sink and live before the last method
    st2,            \* playing, sink and live before the last two methods
    pc,             \* run_app/main position
    res,            \* what run_app returned
    screen          \* status line drawn by the last terminal.draw

appVars  == <<songs, current_song, playing, sink, stream_handle, live, opened>>
opVars   == <<lastOp, lastRes, calls, peak>>
navVars  == <<prevOp, sel1, sel2, nextRun, runStart, st1, st2>>
loopVars == <<pc, res, screen>>
vars == <<songs, current_song, playing, sink, stream_handle, live, opened,
          lastOp, lastRes, calls, peak, prevOp, sel1, sel2, nextRun, runStart,
          st1, st2, pc, res, screen>>

None == <<>>
Some(x) == <<x>>
Max(a, b) == IF a >= b THEN a ELSE b
Min(a, b) == IF a <= b THEN a ELSE b

\* What File::open / Decoder::new / Sink::try_new do on one play() call.
Outcomes == {"ok", "open_err", "decode_err", "sink_err"}

\* A catalog of n tracks; track k stands for the k-th path pushed.
Catalog(n) == [k \in 1..n |-> k]

\* The controller and the backend as one value, with the trace of the
\* method being executed (calls, peak) and its result (ret).
Self == [songs |-> songs, current_song |-> current_song, playing |-> playing,
         sink |-> sink, stream_handle |-> stream_handle, live |-> live,
         opened |-> opened, calls |-> <<>>, peak |-> live, ret |-> "Ok"]

\* The playback part of the state, as the history variables record it.
Playback == [playing |-> playing, sink |-> sink, live |-> live]

----------------------------------------------------------------------------
\* App::new: the state of a freshly constructed controller.
AppNew == [songs |-> <<>>, current_song |-> None, playing |-> FALSE,
           sink |-> None, stream_handle |-> Some(1), live |-> 0, opened |-> 1]

\* play(), lines 45-47: take the owned sink out of the controller, stop it,
\* and drop it at the end of the `if let` block.
StopCurrentLeak(a) == a
StopCurrent(a) ==
    IF a.sink # None
    THEN [a EXCEPT !.sink = None,
                   !.live = a.live - 1,
                   !.calls = Append(a.calls, "stop")]
    ELSE a

\* play(), lines 50-58: open and decode the file, create a sink on the
\* shared output handle, start it.  Each `?` returns early with the error.
StartNewKeepFlag(a, song_path, outcome) ==
    IF a.stream_handle = None THEN a
    ELSE CASE outcome = "open_err" ->
                [a EXCEPT !.calls = Append(a.calls, "open"), !.ret = "Err"]
           [] outcome = "decode_err" ->
                [a EXCEPT !.calls = a.calls \o <<"open", "decode">>, !.ret = "Err"]
           [] outcome = "sink_err" ->
                [a EXCEPT !.calls = a.calls \o <<"open", "decode", "try_new">>,
                          !.ret = "Err"]
           [] OTHER ->
                [a EXCEPT !.calls = a.calls \o <<"open", "decode", "try_new", "append", "play">>,
                          !.live = a.live + 1,
                          !.peak = Max(a.peak, a.live + 1),
                          !.sink = Some([track |-> song_path, paused |-> FALSE,
                                         out |-> a.stream_handle[1]])]
StartNewReopen(a, song_path, outcome) ==
    CASE outcome = "open_err" ->
           [a EXCEPT !.calls = Append(a.calls, "open"), !.ret = "Err"]
      [] outcome = "decode_err" ->
           [a EXCEPT !.calls = a.calls \o <<"open", "decode">>, !.ret = "Err"]
      [] outcome = "sink_err" ->
           [a EXCEPT !.calls = a.calls \o <<"open", "decode", "try_default", "try_new">>,
                     !.opened = a.opened + 1,
                     !.stream_handle = Some(a.opened + 1),
                     !.ret = "Err"]
      [] OTHER ->
           [a EXCEPT !.calls = a.calls \o <<"open", "decode", "try_default", "try_new", "append", "play">>,
                     !.opened = a.opened + 1,
                     !.stream_handle = Some(a.opened + 1),
                     !.live = a.live + 1,
                     !.peak = Max(a.peak, a.live + 1),
                     !.sink = Some([track |-> song_path, paused |-> FALSE,
                                    out |-> a.opened + 1]),
                     !.playing = TRUE]
StartNew(a, song_path, outcome) ==
    IF a.stream_handle = None THEN a
    ELSE CASE outcome = "open_err" ->
                [a EXCEPT !.calls = Append(a.calls, "open"), !.ret = "Err"]
           [] outcome = "decode_err" ->
                [a EXCEPT !.calls = a.calls \o <<"open", "decode">>, !.ret = "Err"]
           [] outcome = "sink_err" ->
                [a EXCEPT !.calls = a.calls \o <<"open", "decode", "try_new">>,
                          !.ret = "Err"]
           [] OTHER ->
                [a EXCEPT !.calls = a.calls \o <<"open", "decode", "try_new", "append", "play">>,
                          !.live = a.live + 1,
                          !.peak = Max(a.peak, a.live + 1),
                          !.sink = Some([track |-> song_path, paused |-> FALSE,
                                         out |-> a.stream_handle[1]]),
                          !.playing = TRUE]

\* App::play
playDefaultFirst(a, outcome) ==
    LET b == IF a.current_song = None /\ Len(a.songs) # 0
             THEN [a EXCEPT !.current_song = Some(0)] ELSE a
    IN IF b.current_song # None /\ b.current_song[1] < Len(b.songs)
       THEN StartNew(StopCurrent(b), b.songs[b.current_song[1] + 1], outcome)
       ELSE b
playOpenFirst(a, outcome) ==
    IF a.current_song # None /\ a.current_song[1] < Len(a.songs)
    THEN StartNew(IF outcome = "ok" THEN StopCurrent(a) ELSE a,
                  a.songs[a.current_song[1] + 1], outcome)
    ELSE a
play(a, outcome) ==
    IF a.current_song # None /\ a.current_song[1] < Len(a.songs)
    THEN StartNew(StopCurrent(a), a.songs[a.current_song[1] + 1], outcome)
    ELSE a

\* App::pause
pauseStops(a) ==
    IF a.sink # None
    THEN IF a.playing
         THEN [a EXCEPT !.sink = None, !.live = a.live - 1,
                        !.calls = Append(a.calls, "stop"), !.playing = FALSE]
         ELSE [a EXCEPT !.sink = Some([a.sink[1] EXCEPT !.paused = FALSE]),
                        !.calls = Append(a.calls, "play"), !.playing = TRUE]
    ELSE a
pauseNoResume(a) ==
    IF a.sink # None /\ a.playing
    THEN [a EXCEPT !.sink = Some([a.sink[1] EXCEPT !.paused = TRUE]),
                   !.calls = Append(a.calls, "pause"),
                   !.playing = FALSE]
    ELSE a
pauseFlagOnly(a) ==
    IF a.sink # None
    THEN [a EXCEPT !.playing = ~a.playing]
    ELSE a
pause(a) ==
    IF a.sink # None
    THEN [a EXCEPT !.sink = Some([a.sink[1] EXCEPT !.paused = a.playing]),
                   !.calls = Append(a.calls, IF a.playing THEN "pause" ELSE "play"),
                   !.playing = ~a.playing]
    ELSE a

\* App::next_song
next_songAutoStop(a) ==
    IF Len(a.songs) # 0
    THEN [a EXCEPT !.current_song =
              Some(IF a.current_song # None
                   THEN (a.current_song[1] + 1) % Len(a.songs)
                   ELSE 0),
                   !.sink = None,
                   !.live = IF a.sink # None THEN a.live - 1 ELSE a.live,
                   !.playing = FALSE]
    ELSE a
next_songNoWrap(a) ==
    IF Len(a.songs) # 0
    THEN [a EXCEPT !.current_song =
              Some(IF a.current_song # None THEN a.current_song[1] + 1 ELSE 0)]
    ELSE a
next_songClamp(a) ==
    IF Len(a.songs) # 0
    THEN [a EXCEPT !.current_song =
              Some(IF a.current_song # None
                   THEN Min(a.current_song[1] + 1, Len(a.songs) - 1)
                   ELSE 0)]
    ELSE a
next_song(a) ==
    IF Len(a.songs) # 0
    THEN [a EXCEPT !.current_song =
              Some(IF a.current_song # None
                   THEN (a.current_song[1] + 1) % Len(a.songs)
                   ELSE 0)]
    ELSE a

\* usize `-` (line 87): below zero the subtraction underflows (a panic in a
\* debug build, a wrap to a huge index in a release build); Underflow marks it.
Underflow == -1
usize_sub(x, y) == IF x >= y THEN x - y ELSE Underflow

\* App::previous_song
previous_songSaturating(a) ==
    IF Len(a.songs) # 0
    THEN [a EXCEPT !.current_song =
              Some(IF a.current_song # None
                   THEN Max(a.current_song[1] - 1, 0)
                   ELSE 0)]
    ELSE a
previous_songUnderflow(a) ==
    IF Len(a.songs) # 0
    THEN [a EXCEPT !.current_song =
              Some(IF a.current_song # None
                   THEN LET t == usize_sub(a.current_song[1], 1)
                        IN IF t = Underflow THEN Underflow ELSE t % Len(a.songs)
                   ELSE 0)]
    ELSE a
previous_song(a) ==
    IF Len(a.songs) # 0
    THEN [a EXCEPT !.current_song =
              Some(IF a.current_song # None
                   THEN LET t == usize_sub(a.current_song[1] + Len(a.songs), 1)
                        IN IF t = Underflow THEN Underflow ELSE t % Len(a.songs)
                   ELSE 0)]
    ELSE a

\* App::select_first_song
select_first_songAlways(a) ==
    IF Len(a.songs) # 0
    THEN [a EXCEPT !.current_song = Some(0)]
    ELSE a
select_first_songNoGuard(a) ==
    IF a.current_song = None
    THEN [a EXCEPT !.current_song = Some(0)]
    ELSE a
select_first_song(a) ==
    IF Len(a.songs) # 0 /\ a.current_song = None
    THEN [a EXCEPT !.current_song = Some(0)]
    ELSE a

\* The "Now Playing" status line computed inside terminal.draw.
NoSongSelected == [text |-> "No song selected", song |-> None, status |-> ""]
now_playing(a) ==
    IF a.current_song # None /\ a.current_song[1] < Len(a.songs)
    THEN [text |-> "Now Playing",
          song |-> Some(a.songs[a.current_song[1] + 1]),
          status |-> IF a.playing THEN "Playing" ELSE "Paused"]
    ELSE NoSongSelected

----------------------------------------------------------------------------
\* The controller driven method by method, in any order.

Init ==
    /\ \E n \in 0..MaxSongs : songs = Catalog(n)
    /\ current_song = AppNew.current_song
    /\ playing = AppNew.playing
    /\ sink = AppNew.sink
    /\ stream_handle = AppNew.stream_handle
    /\ live = AppNew.live
    /\ opened = AppNew.opened
    /\ lastOp = "new" /\ lastRes = "Ok" /\ calls = <<>> /\ peak = 0
    /\ prevOp = "new" /\ sel1 = None /\ sel2 = None
    /\ nextRun = 0 /\ runStart = None
    /\ st1 = [playing |-> FALSE, sink |-> None, live |-> 0] /\ st2 = st1
    /\ pc = "api" /\ res = "none" /\ screen = NoSongSelected

\* Store the controller value r, reached by method op.
Commit(op, r) ==
    /\ songs' = r.songs
    /\ current_song' = r.current_song
    /\ playing' = r.playing
    /\ sink' = r.sink
    /\ stream_handle' = r.stream_handle
    /\ live' = r.live
    /\ opened' = r.opened
    /\ lastOp' = op /\ lastRes' = r.ret /\ calls' = r.calls /\ peak' = r.peak
    /\ prevOp' = lastOp /\ sel1' = current_song /\ sel2' = sel1
    /\ nextRun' = IF op = "next_song" THEN Min(nextRun + 1, MaxSongs + 1) ELSE 0
    /\ runStart' = IF op = "next_song" /\ nextRun > 0 THEN runStart ELSE current_song
    /\ st1' = Playback /\ st2' = st1

CallSelectFirst == pc = "api" /\ Commit("select_first_song", select_first_song(Self)) /\ UNCHANGED loopVars
CallNextSong == pc = "api" /\ Commit("next_song", next_song(Self)) /\ UNCHANGED loopVars
CallPreviousSong == pc = "api" /\ Commit("previous_song", previous_song(Self)) /\ UNCHANGED loopVars
CallPause == pc = "api" /\ Commit("pause", pause(Self)) /\ UNCHANGED loopVars
CallPlay ==
    /\ pc = "api"
    /\ \E outcome \in Outcomes : Commit("play", play(Self, outcome))
    /\ UNCHANGED loopVars

Next == CallSelectFirst \/ CallNextSong \/ CallPreviousSong \/ CallPause \/ CallPlay

Spec == Init /\ [][Next]_vars

----------------------------------------------------------------------------
\* main and run_app: the controller driven by key events.

Keys == {"q", " ", "Right", "Left", "Enter", "other"}

InitMain ==
    /\ \E n \in 0..MaxSongs : songs = Catalog(n)
    /\ current_song = AppNew.current_song
    /\ playing = AppNew.playing
    /\ sink = AppNew.sink
    /\ stream_handle = AppNew.stream_handle
    /\ live = AppNew.live
    /\ opened = AppNew.opened
    /\ lastOp = "new" /\ lastRes = "Ok" /\ calls = <<>> /\ peak = 0
    /\ prevOp = "new" /\ sel1 = None /\ sel2 = None
    /\ nextRun = 0 /\ runStart = None
    /\ st1 = [playing |-> FALSE, sink |-> None, live |-> 0] /\ st2 = st1
    /\ pc = "main" /\ res = "none" /\ screen = NoSongSelected

\* main, line 114, then the call of run_app.
MainSelectFirst ==
    /\ pc = "main"
    /\ Commit("select_first_song", select_first_song(Self))
    /\ pc' = "draw"
    /\ UNCHANGED <<res, screen>>

\* run_app: terminal.draw(...)?, which renders the status line.
Draw ==
    /\ pc = "draw"
    /\ screen' = now_playing(Self)
    /\ pc' = "poll"
    /\ UNCHANGED <<appVars, opVars, navVars, res>>

\* run_app: terminal.draw, event::poll or event::read returns an I/O error,
\* which `?` returns out of the loop.
TerminalError ==
    /\ pc \in {"draw", "poll"}
    /\ res' = "IoErr"
    /\ pc' = "restore"
    /\ UNCHANGED <<appVars, opVars, navVars, screen>>

\* run_app: poll times out, or the event is not one of the bound keys.
KeyOther ==
    /\ pc = "poll"
    /\ pc' = "draw"
    /\ UNCHANGED <<appVars, opVars, navVars, res, screen>>

\* run_app: KeyCode::Char('q') => return Ok(())
KeyQuit ==
    /\ pc = "poll"
    /\ res' = "Ok"
    /\ pc' = "restore"
    /\ UNCHANGED <<appVars, opVars, navVars, screen>>

\* run_app: KeyCode::Char(' ') => app.pause()
KeySpace ==
    /\ pc = "poll"
    /\ Commit("pause", pause(Self))
    /\ pc' = "draw"
    /\ UNCHANGED <<res, screen>>

\* The tail of a key arm that ends in app.play()?: an error leaves the loop.
AfterPlay(r) ==
    /\ Commit("play", r)
    /\ pc' = IF r.ret = "Ok" THEN "draw" ELSE "restore"
    /\ res' = IF r.ret = "Ok" THEN res ELSE "PlayErr"
    /\ UNCHANGED screen

KeyRightNoPlay ==
    /\ pc = "poll"
    /\ Commit("next_song", next_song(Self))
    /\ pc' = "draw"
    /\ UNCHANGED <<res, screen>>
\* run_app: KeyCode::Right => { app.next_song(); app.play()?; }
KeyRight ==
    /\ pc = "poll"
    /\ \E outcome \in Outcomes : AfterPlay(play(next_song(Self), outcome))

\* run_app: KeyCode::Left => { app.previous_song(); app.play()?; }
KeyLeft ==
    /\ pc = "poll"
    /\ \E outcome \in Outcomes : AfterPlay(play(previous_song(Self), outcome))

\* run_app: KeyCode::Enter => { app.play()?; }
KeyEnter ==
    /\ pc = "poll"
    /\ \E outcome \in Outcomes : AfterPlay(play(Self, outcome))

MainExitNoDrop ==
    /\ pc = "restore"
    /\ pc' = "exited"
    /\ UNCHANGED <<appVars, opVars, navVars, res, screen>>
\* main, lines 118-132: restore the terminal, print the error, return; the
\* return drops `app` and with it the owned Sink.
MainExit ==
    /\ pc = "restore"
    /\ pc' = "exited"
    /\ sink' = None
    /\ live' = IF sink # None THEN live - 1 ELSE live
    /\ UNCHANGED <<songs, current_song, playing, stream_handle, opened,
                   opVars, navVars, res, screen>>

NextLoop ==
    \/ MainSelectFirst \/ Draw \/ TerminalError \/ KeyOther \/ KeyQuit
    \/ KeySpace \/ KeyRight \/ KeyLeft \/ KeyEnter \/ MainExit

SpecLoop == InitMain /\ [][NextLoop]_vars

----------------------------------------------------------------------------
\* Properties of the controller (checked under Spec unless said otherwise).

N == Len(songs)

\* C1: at most one Sink exists in every reachable state and at every instant
\* of every method, and a play() that builds a new Sink while one is owned
\* has stopped and released the owned one first.
AtMostOneHandle ==
    /\ [](live <= 1 /\ peak <= 1)
    /\ [][(lastOp' = "play" /\ sink # None
             /\ \E k \in DOMAIN calls' : calls'[k] = "try_new")
          => \E j, k \in DOMAIN calls' :
                 j < k /\ calls'[j] = "stop" /\ calls'[k] = "try_new"]_vars
ReplacedHandle ==
    /\ lastOp = "play" /\ lastRes = "Ok"
    /\ calls = <<"stop", "open", "decode", "try_new", "append", "play">>
    /\ live = 1

\* C2: a play() that succeeds on a valid selection leaves exactly one Sink;
\* a play() that returns an error leaves none, whatever was owned before.
PlayLeavesOneOrZero ==
    /\ (lastOp = "play" /\ lastRes = "Ok" /\ current_song # None) => live = 1
    /\ (lastOp = "play" /\ lastRes = "Err") => live = 0
FailedPlayOverHandle ==
    /\ lastOp = "play" /\ lastRes = "Err"
    /\ Len(calls) >= 2 /\ calls[1] = "stop"
    /\ live = 0

\* C3: after a play() that returned an error the controller is not marked
\* as playing and the status line does not report Playing.
FailedPlayRevertsToStopped ==
    (lastOp = "play" /\ lastRes = "Err")
        => (~playing /\ now_playing(Self).status # "Playing")

\* C4 (SpecLoop): a play() error raised from a key event leaves the
\* interaction loop running.
LoopSurvivesPlayError ==
    (lastOp = "play" /\ lastRes = "Err") => pc \in {"draw", "poll"}

\* C5: the playing flag is set only while a Sink is owned.
PlayingImpliesSink == playing => (sink # None /\ live = 1)

\* C6: previous_song undoes next_song and next_song undoes previous_song,
\* from every selection of a non-empty catalog, None included.
InverseFromEverySelection ==
    (N >= 1 /\ \/ (prevOp = "next_song" /\ lastOp = "previous_song")
               \/ (prevOp = "previous_song" /\ lastOp = "next_song"))
        => current_song = sel2
\* C6 as amended: the same from every selection Some(i).
InverseFromSome ==
    (N >= 1 /\ sel2 # None
       /\ \/ (prevOp = "next_song" /\ lastOp = "previous_song")
          \/ (prevOp = "previous_song" /\ lastOp = "next_song"))
        => current_song = sel2
InverseAcrossWrap ==
    /\ N >= 2
    /\ prevOp = "previous_song" /\ lastOp = "next_song"
    /\ sel2 = Some(0) /\ sel1 = Some(N - 1) /\ current_song = Some(0)

\* C7: N calls of next_song in a row bring the selection back to where the
\* run started, from every starting selection, None included.
CycleFromEverySelection ==
    (N >= 1 /\ nextRun = N) => current_song = runStart
\* C7 as amended: the same from every starting selection Some(i).
CycleFromSome ==
    (N >= 1 /\ nextRun = N /\ runStart # None) => current_song = runStart
FullCycleDone ==
    N >= 2 /\ nextRun = N /\ runStart = Some(1) /\ current_song = Some(1)

\* C8: on a non-empty catalog next_song steps Some(i) to Some(i+1), Some(N-1)
\* to Some(0) and None to Some(0); previous_song steps Some(i) to Some(i-1)
\* and Some(0) to Some(N-1), with no underflow.
StepsAsSpecified ==
    N >= 1 =>
      /\ lastOp = "next_song" =>
           current_song = IF sel1 = None THEN Some(0)
                          ELSE IF sel1[1] = N - 1 THEN Some(0)
                          ELSE Some(sel1[1] + 1)
      /\ (lastOp = "previous_song" /\ sel1 # None) =>
           current_song = IF sel1[1] = 0 THEN Some(N - 1) ELSE Some(sel1[1] - 1)
PreviousWrapped ==
    N >= 2 /\ lastOp = "previous_song" /\ sel1 = Some(0)
           /\ current_song = Some(N - 1)

\* C9: a selection Some(i) always has 0 <= i < len(songs).
SelectionInRange ==
    current_song # None => (0 <= current_song[1] /\ current_song[1] < N)
NextWrapped ==
    N >= 2 /\ lastOp = "next_song" /\ sel1 = Some(N - 1)
           /\ current_song = Some(0)

\* C10: with an empty catalog nothing ever changes: no selection, no Sink,
\* not playing, every method returns Ok without a backend call, and the
\* status line reads "No song selected".
EmptyCatalogNoOp ==
    N = 0 =>
      /\ current_song = None /\ sink = None /\ live = 0 /\ ~playing
      /\ lastRes = "Ok" /\ calls = <<>>
      /\ now_playing(Self) = NoSongSelected
EmptyCatalogPlayed ==
    N = 0 /\ lastOp = "play" /\ prevOp = "next_song"

\* C11: next_song and previous_song leave the playing flag and the owned
\* Sink (its existence, its track, its running/paused status) as they were.
NavigationKeepsPlayback ==
    lastOp \in {"next_song", "previous_song"} =>
        (playing = st1.playing /\ sink = st1.sink /\ live = st1.live)
NavigatedWhilePaused ==
    /\ lastOp = "next_song" /\ sink # None /\ sink[1].paused /\ ~playing
    /\ current_song # None /\ songs[current_song[1] + 1] # sink[1].track

\* C12: pause() changes nothing without a Sink; with a Sink it pauses a
\* playing one and resumes a paused one, flipping the flag; it never moves
\* the selection and never creates or destroys a Sink.
PauseIsPureFlip ==
    lastOp = "pause" =>
      /\ current_song = sel1 /\ live = st1.live
      /\ st1.sink = None => (sink = None /\ playing = st1.playing /\ calls = <<>>)
      /\ (st1.sink # None /\ st1.playing) =>
           /\ sink = Some([st1.sink[1] EXCEPT !.paused = TRUE])
           /\ ~playing /\ calls = <<"pause">>
      /\ (st1.sink # None /\ ~st1.playing) =>
           /\ sink = Some([st1.sink[1] EXCEPT !.paused = FALSE])
           /\ playing /\ calls = <<"play">>
PausedByToggle ==
    /\ lastOp = "pause" /\ st1.sink # None /\ st1.playing
    /\ sink # None /\ sink[1].paused /\ ~playing

\* C13: two pause() calls in a row bring the playing flag and the Sink back
\* to what they were before the two calls.
TwoTogglesRestore ==
    (lastOp = "pause" /\ prevOp = "pause") =>
        (playing = st2.playing /\ sink = st2.sink /\ live = st2.live)
ToggledTwiceWhilePlaying ==
    /\ lastOp = "pause" /\ prevOp = "pause"
    /\ st2.sink # None /\ st2.playing /\ ~st1.playing /\ playing

\* C14: a play() that succeeds on Some(i) ends, from Stopped, Playing or
\* Paused alike, with playing set and one running Sink bound to track i; a
\* Sink owned before the call was stopped and released first.
SuccessfulPlayStartsSelection ==
    (lastOp = "play" /\ lastRes = "Ok" /\ current_song # None) =>
      /\ playing /\ live = 1
      /\ sink # None
      /\ sink[1].track = songs[current_song[1] + 1] /\ ~sink[1].paused
      /\ st1.sink # None => (calls[1] = "stop" /\ peak = 1)
PlayedOverPausedHandle ==
    /\ lastOp = "play" /\ lastRes = "Ok"
    /\ st1.sink # None /\ st1.sink[1].paused /\ ~st1.playing
    /\ sink # None /\ sink[1].track # st1.sink[1].track

\* C15: play() with no selection returns Ok, makes no backend call and
\* leaves the selection (None), the playing flag and the Sink as they were.
PlayWithoutSelectionNoOp ==
    (lastOp = "play" /\ sel1 = None) =>
      /\ lastRes = "Ok" /\ calls = <<>>
      /\ current_song = None
      /\ playing = st1.playing /\ sink = st1.sink /\ live = st1.live
PlayedWithoutSelection ==
    lastOp = "play" /\ sel1 = None /\ N >= 1

\* C16: the output stream is opened once, by App::new, and every Sink is
\* created on that stream's handle.
OutputOpenedOnce ==
    /\ opened = 1 /\ stream_handle = Some(1)
    /\ sink # None => sink[1].out = 1
PlayedTwiceOnSharedOutput ==
    /\ lastOp = "play" /\ lastRes = "Ok" /\ prevOp = "play"
    /\ st1.sink # None /\ sink # None /\ opened = 1

\* C17: select_first_song sets the selection to Some(0) exactly when it was
\* None and the catalog is non-empty, leaves it alone otherwise, and never
\* touches the playing flag or the Sink.
SelectFirstOnlyFromNone ==
    lastOp = "select_first_song" =>
      /\ current_song = IF sel1 = None /\ N >= 1 THEN Some(0) ELSE sel1
      /\ playing = st1.playing /\ sink = st1.sink /\ live = st1.live
SelectFirstKeptSelection ==
    /\ lastOp = "select_first_song" /\ sel1 = Some(1) /\ current_song = Some(1)
    /\ sink # None

\* C18 (SpecLoop): however run_app returned, no Sink is left when main has
\* returned: the one owned at that moment has been released.
NoHandleAfterExit ==
    pc = "exited" => (sink = None /\ live = 0)
ExitedWithHandleReleased ==
    /\ pc = "exited" /\ res \in {"Ok", "IoErr"}
    /\ lastOp = "play" /\ lastRes = "Ok" /\ Len(calls) >= 5
    /\ live = 0

\* C19 (SpecLoop): while the loop runs, an owned Sink is bound to the track
\* at the current selection, and the status line drawn for it names that
\* track.
HandlePlaysSelection ==
    (pc \in {"draw", "poll"} /\ sink # None) =>
      /\ current_song # None
      /\ sink[1].track = songs[current_song[1] + 1]
      /\ pc = "poll" => screen.song = Some(sink[1].track)
DrawnAfterSwitch ==
    /\ pc = "poll" /\ sink # None /\ st1.sink # None
    /\ sink[1].track # st1.sink[1].track
    /\ screen.song = Some(sink[1].track)

\* C20: an owned Sink runs exactly when the playing flag is set and is
\* paused exactly when it is clear.
SinkStatusMatchesFlag ==
    sink # None => (sink[1].paused <=> ~playing)
ResumedHandleRuns ==
    /\ lastOp = "pause" /\ st1.sink # None /\ st1.sink[1].paused
    /\ sink # None /\ ~sink[1].paused /\ playing

====
